---- MODULE Spec2Model ----
(***************************************************************************)
(* Forien Quest Log: the Quest aggregate (tasks, rewards, parent/subquest  *)
(* links, save and delete), the Task state machine, and the QuestTracker   *)
(* view (prepareQuests, folder state, debounced position write).           *)
(*                                                                         *)
(* One group of variables per component; each specification initialises    *)
(* every group and moves only its own.                                     *)
(***************************************************************************)
EXTENDS Integers, Sequences, FiniteSets, TLC

VARIABLES
    task,       \* Task: the Task object under test
    task0,      \* Task: the object as its constructor left it
    toggles,    \* Task: toggle() calls since construction
    tasks,      \* Quest: this.tasks
    rewards,    \* Quest: this.rewards
    subquests,  \* Quest: this.subquests
    call,       \* Quest: the last list operation, its arguments and the lists before it
    quests,     \* persistence: the Quest objects, by identifier
    questIndex, \* persistence: the identifiers Fetch.quest finds
    journal,    \* persistence: game.journal, the backing record of each identifier
    denied,     \* persistence: the records the acting user may not update
    frame,      \* persistence: the running delete() or save(), suspended at an await
    log,        \* persistence: what the running call has done to the journal, in order
    ops,        \* persistence: calls made so far
    db,         \* tracker: QuestDB, the enriched entry of each quest
    primary,    \* tracker: the primaryQuest setting
    session,    \* tracker: sessionStorage
    view,       \* tracker: what the last getData() gave the template
    clicks,     \* tracker: header clicks handled, per quest
    now,        \* position: the clock
    timers,     \* position: the setTimeout callbacks waiting
    timeoutPosition, \* position: _timeoutPosition, 0 while undefined
    stored,     \* position: the questTrackerPosition setting
    hist,       \* position: the calls and writes so far
    folders,    \* folder: game.journal.directory.folders, by name
    initPc,     \* folder: where each initializeJournals() call stands
    initCalls,  \* folder: initializeJournals() calls started
    made,       \* reward: the last Reward.create or new Reward, its input and outcome
    rewardObj,  \* reward: the Reward object it left
    questTasks, \* task click: the tasks of the tracked quest, by uuid
    taskRecord, \* task click: the quest's backing record and the permission on it
    handlers,   \* task click: the _handleQuestTask calls, in the order they began
    events      \* task click: what the calls did, in order

taskVars == <<task, task0, toggles>>
listVars == <<tasks, rewards, subquests, call>>
persistVars == <<quests, questIndex, journal, denied, frame, log, ops>>
trackerVars == <<db, primary, session, view, clicks>>
positionVars == <<now, timers, timeoutPosition, stored, hist>>
folderVars == <<folders, initPc, initCalls>>
rewardVars == <<made, rewardObj>>
clickVars == <<questTasks, taskRecord, handlers, events>>
vars == <<task, task0, toggles, tasks, rewards, subquests, call,
          quests, questIndex, journal, denied, frame, log, ops,
          db, primary, session, view, clicks,
          now, timers, timeoutPosition, stored, hist,
          folders, initPc, initCalls, made, rewardObj,
          questTasks, taskRecord, handlers, events>>

\* What each component leaves alone.
notTaskVars == <<listVars, persistVars, trackerVars, positionVars,
                 folderVars, rewardVars, clickVars>>
notListVars == <<taskVars, persistVars, trackerVars, positionVars,
                 folderVars, rewardVars, clickVars>>
notPersistVars == <<taskVars, listVars, trackerVars, positionVars,
                    folderVars, rewardVars, clickVars>>
notTrackerVars == <<taskVars, listVars, persistVars, positionVars,
                    folderVars, rewardVars, clickVars>>
notPositionVars == <<taskVars, listVars, persistVars, trackerVars,
                     folderVars, rewardVars, clickVars>>
notFolderVars == <<taskVars, listVars, persistVars, trackerVars, positionVars,
                   rewardVars, clickVars>>
notRewardVars == <<taskVars, listVars, persistVars, trackerVars, positionVars,
                   folderVars, clickVars>>
notClickVars == <<taskVars, listVars, persistVars, trackerVars, positionVars,
                  folderVars, rewardVars>>

(***************************************************************************)
(* JavaScript values.  Strings are TLA+ strings; undefined and null are    *)
(* two reserved strings no input uses; booleans of a raw record are the    *)
(* strings "true" and "false" (their JSON form) or undefined.              *)
(***************************************************************************)
Undefined == "<undefined>"
Null == "<null>"

\* Truthiness of a string-or-missing value: '', undefined and null are falsy.
Truthy(v) == v \notin {Undefined, Null, ""}

\* `v || d`
Or(v, d) == IF Truthy(v) THEN v ELSE d

\* `flag || false` for a raw boolean field: true only for true.
OrFalse(v) == v = "true"

(***************************************************************************)
(* Task (src/modules/model/Quest.js, class Task)                           *)
(***************************************************************************)
TaskNames == {Undefined, "", "Find the amulet", "Slay the dragon"}
RawFlags == {Undefined, "false", "true"}

\* The raw records a Task is constructed from.
TaskData == [name : TaskNames, completed : RawFlags, failed : RawFlags, hidden : RawFlags]

\* constructor(data)
Task(data) ==
    [name |-> Or(data.name, Null),
     completed |-> OrFalse(data.completed),
     failed |-> OrFalse(data.failed),
     hidden |-> OrFalse(data.hidden)]

\* get state()
TaskState(t) ==
    IF t.completed THEN "check-square"
    ELSE IF t.failed THEN "minus-square"
    ELSE "square"

\* A toggle() that forgets to clear `completed` on the way to failed.
ToggleKeepsCompleted(t) ==
    IF ~t.completed /\ ~t.failed THEN [t EXCEPT !.completed = TRUE]
    ELSE IF t.completed THEN [t EXCEPT !.failed = TRUE]
    ELSE [t EXCEPT !.failed = FALSE]

\* toggle()
Toggle(t) ==
    IF t.completed = FALSE /\ t.failed = FALSE THEN [t EXCEPT !.completed = TRUE]
    ELSE IF t.completed = TRUE THEN [t EXCEPT !.failed = TRUE, !.completed = FALSE]
    ELSE [t EXCEPT !.failed = FALSE]

\* toggleVisible()
ToggleVisible(t) == [t EXCEPT !.hidden = ~t.hidden]

\* Task.toJSON(): the stored form, the derived state included.
TaskToJSON(t) ==
    [name |-> t.name,
     completed |-> IF t.completed THEN "true" ELSE "false",
     failed |-> IF t.failed THEN "true" ELSE "false",
     hidden |-> IF t.hidden THEN "true" ELSE "false",
     state |-> TaskState(t)]

MaxToggles == 6

TaskInit ==
    /\ \E d \in TaskData : task = Task(d)
    /\ task0 = task
    /\ toggles = 0

TaskIdle ==
    /\ task = Task([name |-> Undefined, completed |-> Undefined,
                    failed |-> Undefined, hidden |-> Undefined])
    /\ task0 = task
    /\ toggles = 0

\* new Task(data): from a fresh record.
NewTask ==
    /\ \E d \in TaskData : task' = Task(d)
    /\ task0' = task'
    /\ toggles' = 0
    /\ UNCHANGED notTaskVars

\* new Task(stored): Quest.initData over the record toJSON() stored.
ReloadTask ==
    /\ task' = Task([name |-> task.name,
                     completed |-> TaskToJSON(task).completed,
                     failed |-> TaskToJSON(task).failed,
                     hidden |-> TaskToJSON(task).hidden])
    /\ task0' = task'
    /\ toggles' = 0
    /\ UNCHANGED notTaskVars

TaskToggle ==
    /\ toggles < MaxToggles
    /\ task' = Toggle(task)
    /\ toggles' = toggles + 1
    /\ UNCHANGED task0
    /\ UNCHANGED notTaskVars

TaskToggleVisible ==
    /\ task' = ToggleVisible(task)
    /\ UNCHANGED <<task0, toggles>>
    /\ UNCHANGED notTaskVars

TaskNext ==
    \/ NewTask
    \/ ReloadTask
    \/ TaskToggle
    \/ TaskToggleVisible

(***************************************************************************)
(* Quest: the task and reward sequences (src/modules/model/Quest.js)       *)
(***************************************************************************)
\* class Reward of Quest.js: constructor(data).  The data mapping is named by
\* one string; "{}" is the empty mapping.
Reward(data) ==
    [type |-> Or(data.type, Null),
     data |-> Or(data.data, "{}"),
     hidden |-> OrFalse(data.hidden)]

RewardTypes == {Undefined, "item"}
RewardItems == {"Sword"}
RewardData == [type : RewardTypes, data : RewardItems, hidden : {Undefined}]

\* An array slot holding undefined, in the shape of a task or of a reward.
UndefinedTask == [name |-> Undefined, completed |-> FALSE, failed |-> FALSE, hidden |-> FALSE]
UndefinedReward == [type |-> Undefined, data |-> Undefined, hidden |-> FALSE]

Min(a, b) == IF a < b THEN a ELSE b
Max(a, b) == IF a > b THEN a ELSE b

\* Array.prototype.splice(start, deleteCount, ...items) on a 0-based array held
\* as a 1-based sequence: the start is taken from the end when negative and
\* clamped to the array; the result is the removed elements and the new array.
Splice(arr, start, deleteCount, items) ==
    LET len == Len(arr)
        actualStart == IF start < 0 THEN Max(len + start, 0) ELSE Min(start, len)
        actualDelete == Min(Max(deleteCount, 0), len - actualStart)
    IN  [removed |-> SubSeq(arr, actualStart + 1, actualStart + actualDelete),
         array |-> SubSeq(arr, 1, actualStart) \o items
                   \o SubSeq(arr, actualStart + actualDelete + 1, len)]

\* arr[index]: undefined outside the array.
At(arr, index, undef) == IF index >= 0 /\ index < Len(arr) THEN arr[index + 1] ELSE undef

\* A sort that tests `targetIdx !== undefined` instead of its truthiness.
SortDefinedTarget(arr, index, hasTarget, targetIdx, undef) ==
    LET cut == Splice(arr, index, 1, <<>>)
        entry == IF Len(cut.removed) > 0 THEN cut.removed[1] ELSE undef
    IN  IF hasTarget
        THEN Splice(cut.array, targetIdx, 0, <<entry>>).array
        ELSE Append(cut.array, entry)

\* sortRewards(index, targetIdx) / sortTasks(index, targetIdx): the two bodies
\* differ only in the array.  hasTarget is FALSE when targetIdx is undefined.
Sort(arr, index, hasTarget, targetIdx, undef) ==
    LET cut == Splice(arr, index, 1, <<>>)
        entry == IF Len(cut.removed) > 0 THEN cut.removed[1] ELSE undef
    IN  IF hasTarget /\ targetIdx # 0
        THEN Splice(cut.array, targetIdx, 0, <<entry>>).array
        ELSE Append(cut.array, entry)

\* removeReward(index) / removeTask(index)
Remove(arr, index, undef) ==
    IF At(arr, index, undef) # undef THEN Splice(arr, index, 1, <<>>).array ELSE arr

\* addTask(data): `task.name.length` on a null name is a TypeError.
AddTaskThrows(data) == Task(data).name = Null

AddTask(arr, data) ==
    IF AddTaskThrows(data) THEN arr
    ELSE IF Len(Task(data).name) # 0 THEN Append(arr, Task(data))
    ELSE arr

\* addReward(data)
AddReward(arr, data) ==
    IF Reward(data).type # Null THEN Append(arr, Reward(data)) ELSE arr

\* The tasks and rewards one quest holds, together.
MaxLen == 3

\* The indices a caller passes: from one before the array to past its end.
Indices == -1 .. MaxLen

Fits(ts, rs) == Len(ts) + Len(rs) <= MaxLen

Call(op, name, index, hasTarget, target, threw) ==
    [op |-> op, name |-> name, index |-> index, hasTarget |-> hasTarget,
     target |-> target, threw |-> threw,
     tasks |-> tasks, rewards |-> rewards, subquests |-> subquests]

\* new Quest(): initData({}) leaves the three sequences empty.
ListIdle ==
    /\ tasks = <<>>
    /\ rewards = <<>>
    /\ subquests = <<>>
    /\ call = [op |-> "none", name |-> Undefined, index |-> 0, hasTarget |-> FALSE,
               target |-> 0, threw |-> FALSE,
               tasks |-> <<>>, rewards |-> <<>>, subquests |-> <<>>]

\* new Quest(data): the subquest identifiers come from the record.
ListInit ==
    /\ tasks = <<>>
    /\ rewards = <<>>
    /\ subquests = <<"B", "C">>
    /\ call = [op |-> "none", name |-> Undefined, index |-> 0, hasTarget |-> FALSE,
               target |-> 0, threw |-> FALSE,
               tasks |-> <<>>, rewards |-> <<>>, subquests |-> <<"B", "C">>]

QuestAddTask ==
    \E d \in TaskData :
        /\ d.completed = Undefined /\ d.failed = Undefined /\ d.hidden = Undefined
        /\ Fits(AddTask(tasks, d), rewards)
        /\ tasks' = AddTask(tasks, d)
        /\ call' = Call("addTask", d.name, 0, FALSE, 0, AddTaskThrows(d))
        /\ UNCHANGED <<rewards, subquests>>
        /\ UNCHANGED notListVars

QuestAddReward ==
    \E d \in RewardData :
        /\ Fits(tasks, AddReward(rewards, d))
        /\ rewards' = AddReward(rewards, d)
        /\ call' = Call("addReward", d.type, 0, FALSE, 0, FALSE)
        /\ UNCHANGED <<tasks, subquests>>
        /\ UNCHANGED notListVars

QuestRemoveTask ==
    \E i \in Indices :
        /\ tasks' = Remove(tasks, i, UndefinedTask)
        /\ call' = Call("removeTask", Undefined, i, FALSE, 0, FALSE)
        /\ UNCHANGED <<rewards, subquests>>
        /\ UNCHANGED notListVars

QuestRemoveReward ==
    \E i \in Indices :
        /\ rewards' = Remove(rewards, i, UndefinedReward)
        /\ call' = Call("removeReward", Undefined, i, FALSE, 0, FALSE)
        /\ UNCHANGED <<tasks, subquests>>
        /\ UNCHANGED notListVars

QuestSortTasks ==
    \E i \in Indices, h \in BOOLEAN, t \in Indices :
        /\ h \/ t = 0
        /\ Fits(Sort(tasks, i, h, t, UndefinedTask), rewards)
        /\ tasks' = Sort(tasks, i, h, t, UndefinedTask)
        /\ call' = Call("sortTasks", Undefined, i, h, t, FALSE)
        /\ UNCHANGED <<rewards, subquests>>
        /\ UNCHANGED notListVars

QuestSortRewards ==
    \E i \in Indices, h \in BOOLEAN, t \in Indices :
        /\ h \/ t = 0
        /\ Fits(tasks, Sort(rewards, i, h, t, UndefinedReward))
        /\ rewards' = Sort(rewards, i, h, t, UndefinedReward)
        /\ call' = Call("sortRewards", Undefined, i, h, t, FALSE)
        /\ UNCHANGED <<tasks, subquests>>
        /\ UNCHANGED notListVars

ListNext ==
    \/ QuestAddTask
    \/ QuestAddReward
    \/ QuestRemoveTask
    \/ QuestRemoveReward
    \/ QuestSortTasks
    \/ QuestSortRewards

(***************************************************************************)
(* Quest: save() and delete() (src/modules/model/Quest.js)                 *)
(***************************************************************************)
QuestIds == {"P", "A", "B", "C"}

NewQuestLabel == "New Quest"
QuestNames == {Undefined, "", "Rescue"}

\* set name(value)
SetName(value) == IF value # Undefined /\ Len(value) > 0 THEN value ELSE NewQuestLabel

\* Fetch.quest(id): the quest of the index, or null.
FetchQuest(id) == IF id \in questIndex THEN id ELSE Null

\* toJSON(): the fields the links and the name live in.
ToJSON(q) == [name |-> q.name, parent |-> q.parent, subquests |-> q.subquests]

NoUpdate == [name |-> Null, json |-> [name |-> Null, parent |-> Null, subquests |-> <<>>]]
NoRecord == [exists |-> FALSE, name |-> Null,
             json |-> [name |-> Null, parent |-> Null, subquests |-> <<>>]]
NoPending == [id |-> Null, skip |-> TRUE, update |-> NoUpdate]

\* A save() that looks only for the record, not at the permission.
SaveSkipsNoPermissionTest(id) == ~journal[id].exists

\* save(): `!entry || !entry.canUserModify(game.user, 'update')`
SaveSkips(id) == ~journal[id].exists \/ id \in denied

\* save(): the update object handed to entry.update.
SaveUpdate(q) ==
    [name |-> IF q.name # Undefined /\ Len(q.name) > 0 THEN q.name ELSE NewQuestLabel,
     json |-> ToJSON(q)]

\* save() up to its await: the early return, or entry.update(update) in flight.
SaveStart(qs, id) ==
    IF SaveSkips(id) THEN [id |-> id, skip |-> TRUE, update |-> NoUpdate]
    ELSE [id |-> id, skip |-> FALSE, update |-> SaveUpdate(qs[id])]

\* What save() has logged by its await.
SaveStartLog(lg, id, role) ==
    IF SaveSkips(id) THEN Append(lg, [ev |-> "saveStart", id |-> id, role |-> role])
    ELSE lg \o <<[ev |-> "saveStart", id |-> id, role |-> role],
                 [ev |-> "update", id |-> id, role |-> role]>>

\* entry.update(update, {diff: false}) done.
ApplyUpdate(jr, pending) ==
    IF pending.skip THEN jr
    ELSE [jr EXCEPT ![pending.id] =
             [exists |-> TRUE, name |-> pending.update.name, json |-> pending.update.json]]

\* save(): what it returns.
SaveReturn(pending) == IF pending.skip THEN Undefined ELSE pending.id

\* An addSubquest that adds nothing.
AddSubquestNothing(qs, id, questId) == qs

\* addSubquest(questId)
AddSubquest(qs, id, questId) ==
    [qs EXCEPT ![id].subquests = Append(@, questId)]

\* A removeSubquest that leaves the list as it was.
RemoveSubquestNothing(qs, id, questId) == qs

\* removeSubquest(questId)
RemoveSubquest(qs, id, questId) ==
    [qs EXCEPT ![id].subquests = SelectSeq(@, LAMBDA x : x # questId)]

\* The first position from i on whose subquest Fetch.quest finds; 0 when none.
NextChild(subs, i) ==
    LET found == {j \in i .. Len(subs) : subs[j] \in questIndex}
    IN  IF found = {} THEN 0 ELSE CHOOSE j \in found : \A k \in found : j <= k

\* A delete() that removes its own record before it saves the parent.
StageAfterDeleteFirst(fr, qs, stage) ==
    IF stage = "childSave"
    THEN IF qs[fr.self].entry THEN "entryDelete"
         ELSE IF fr.parentQuest # Null THEN "parentSave" ELSE "done"
    ELSE IF stage = "entryDelete"
    THEN IF fr.parentQuest # Null THEN "parentSave" ELSE "done"
    ELSE "done"

\* delete(): the step that follows the children's loop, the parent's save and
\* the record's deletion: `if (parentQuest)`, then `if (this.entry)`, then return.
StageAfter(fr, qs, stage) ==
    IF stage = "childSave"
    THEN IF fr.parentQuest # Null THEN "parentSave"
         ELSE IF qs[fr.self].entry THEN "entryDelete" ELSE "done"
    ELSE IF stage = "parentSave"
    THEN IF qs[fr.self].entry THEN "entryDelete" ELSE "done"
    ELSE "done"

\* delete() entering a step after the loop, up to its await or its return.
Enter(qs, fr, lg, stage) ==
    IF stage = "parentSave"
    THEN [quests |-> qs,
          frame |-> [fr EXCEPT !.pc = "parentSave", !.pending = SaveStart(qs, fr.parentQuest)],
          log |-> SaveStartLog(lg, fr.parentQuest, "parent")]
    ELSE IF stage = "entryDelete"
    THEN [quests |-> qs,
          frame |-> [fr EXCEPT !.pc = "entryDelete", !.pending = NoPending],
          log |-> Append(lg, [ev |-> "deleteStart", id |-> fr.self, role |-> "self"])]
    ELSE [quests |-> qs,
          frame |-> [fr EXCEPT !.pc = "done", !.pending = NoPending, !.ret = fr.self],
          log |-> lg]

\* delete(): the loop over this.subquests from position fr.i, up to the next
\* await: the next child found gets its parent and its save() is called; with
\* no child left the steps after the loop begin.
Resume(qs, fr, lg) ==
    LET subs == qs[fr.self].subquests
        j == NextChild(subs, fr.i)
    IN  IF j # 0
        THEN LET reparented == [qs EXCEPT ![subs[j]].parent = fr.parentId]
             IN  [quests |-> reparented,
                  frame |-> [fr EXCEPT !.pc = "childSave", !.i = j,
                                       !.pending = SaveStart(reparented, subs[j])],
                  log |-> SaveStartLog(lg, subs[j], "child")]
        ELSE Enter(qs, fr, lg, StageAfter(fr, qs, "childSave"))

IdleFrame ==
    [op |-> "none", pc |-> "idle", self |-> Null, parentQuest |-> Null, parentId |-> Null,
     savedIDs |-> <<>>, i |-> 1, pending |-> NoPending, ret |-> Null, before |-> NoRecord]

MaxOps == 2

\* The forests over the four quests in which a parent comes before its children.
Forests ==
    {f \in [QuestIds -> QuestIds \cup {Null}] :
        /\ f["P"] = Null
        /\ f["A"] \in {Null, "P"}
        /\ f["B"] \in {Null, "P", "A"}
        /\ f["C"] \in {Null, "P", "A", "B"}}

\* The children of p, in the order P, A, B, C.
ChildrenOf(f, p) ==
    SelectSeq(<<"P", "A", "B", "C">>, LAMBDA c : f[c] = p)

\* One quest at most is out of the ordinary: not in the index, without a
\* backing record, or not the acting user's to update.
Troubles == {[kind |-> "none", id |-> Null]}
            \cup [kind : {"absent", "norecord", "denied"}, id : QuestIds]

PersistInitWith(f, t) ==
    /\ quests = [q \in QuestIds |->
                    [name |-> NewQuestLabel, parent |-> f[q], subquests |-> ChildrenOf(f, q),
                     entry |-> ~(t.kind \in {"absent", "norecord"} /\ t.id = q)]]
    /\ questIndex = QuestIds \ (IF t.kind = "absent" THEN {t.id} ELSE {})
    /\ journal = [q \in QuestIds |->
                    IF t.kind \in {"absent", "norecord"} /\ t.id = q THEN NoRecord
                    ELSE [exists |-> TRUE, name |-> NewQuestLabel,
                          json |-> [name |-> NewQuestLabel, parent |-> f[q],
                                    subquests |-> ChildrenOf(f, q)]]]
    /\ denied = IF t.kind = "denied" THEN {t.id} ELSE {}
    /\ frame = IdleFrame
    /\ log = <<>>
    /\ ops = 0

PersistInit == \E f \in Forests, t \in Troubles : PersistInitWith(f, t)

PersistIdle == PersistInitWith([q \in QuestIds |-> Null], [kind |-> "none", id |-> Null])

Returned == frame.pc \in {"idle", "done"}

\* quest.name = value, between two calls.
QuestSetName ==
    \E q \in questIndex, v \in QuestNames :
        /\ Returned
        /\ ops < MaxOps
        /\ ops' = ops + 1
        /\ quests' = [quests EXCEPT ![q].name = SetName(v)]
        /\ frame' = IdleFrame
        /\ log' = <<>>
        /\ UNCHANGED <<questIndex, journal, denied>>
        /\ UNCHANGED notPersistVars

\* quest.save(), up to its await.
SaveCall ==
    \E q \in questIndex :
        /\ Returned
        /\ ops < MaxOps
        /\ ops' = ops + 1
        /\ frame' = [IdleFrame EXCEPT !.op = "save", !.pc = "save", !.self = q,
                                      !.pending = SaveStart(quests, q),
                                      !.before = journal[q]]
        /\ log' = SaveStartLog(<<>>, q, "self")
        /\ UNCHANGED <<quests, questIndex, journal, denied>>
        /\ UNCHANGED notPersistVars

\* quest.save(), from its await to its return.
SaveDone ==
    /\ frame.op = "save" /\ frame.pc = "save"
    /\ journal' = ApplyUpdate(journal, frame.pending)
    /\ frame' = [frame EXCEPT !.pc = "done", !.ret = SaveReturn(frame.pending),
                              !.pending = NoPending]
    /\ log' = Append(log, [ev |-> "saveDone", id |-> frame.self, role |-> "self"])
    /\ UNCHANGED <<quests, questIndex, denied, ops>>
    /\ UNCHANGED notPersistVars

\* quest.delete(), up to its first await.
DeleteCall ==
    \E q \in questIndex :
        /\ Returned
        /\ ops < MaxOps
        /\ ops' = ops + 1
        /\ LET parentQuest == FetchQuest(quests[q].parent)
               unlinked == IF parentQuest # Null
                           THEN RemoveSubquest(quests, parentQuest, q) ELSE quests
               fr == [IdleFrame EXCEPT !.op = "delete", !.self = q,
                                       !.parentQuest = parentQuest,
                                       !.parentId = parentQuest,
                                       !.before = journal[q]]
               next == Resume(unlinked, fr, <<>>)
           IN  /\ quests' = next.quests
               /\ frame' = next.frame
               /\ log' = next.log
        /\ UNCHANGED <<questIndex, journal, denied>>
        /\ UNCHANGED notPersistVars

\* delete(): a child's save() returns; the child is noted as saved, the parent
\* takes it as a subquest, and the loop goes on.
DeleteChildSaved ==
    /\ frame.op = "delete" /\ frame.pc = "childSave"
    /\ LET child == frame.pending.id
           adopted == IF frame.parentQuest # Null
                      THEN AddSubquest(quests, frame.parentQuest, child) ELSE quests
           fr == [frame EXCEPT !.savedIDs = Append(@, child), !.i = @ + 1]
           next == Resume(adopted, fr,
                          Append(log, [ev |-> "saveDone", id |-> child, role |-> "child"]))
       IN  /\ quests' = next.quests
           /\ frame' = next.frame
           /\ log' = next.log
    /\ journal' = ApplyUpdate(journal, frame.pending)
    /\ UNCHANGED <<questIndex, denied, ops>>
    /\ UNCHANGED notPersistVars

\* delete(): the parent's save() returns.
DeleteParentSaved ==
    /\ frame.op = "delete" /\ frame.pc = "parentSave"
    /\ LET fr == [frame EXCEPT !.savedIDs = Append(@, frame.parentQuest)]
           next == Enter(quests, fr,
                         Append(log, [ev |-> "saveDone", id |-> frame.parentQuest,
                                      role |-> "parent"]),
                         StageAfter(fr, quests, "parentSave"))
       IN  /\ quests' = next.quests
           /\ frame' = next.frame
           /\ log' = next.log
    /\ journal' = ApplyUpdate(journal, frame.pending)
    /\ UNCHANGED <<questIndex, denied, ops>>
    /\ UNCHANGED notPersistVars

\* delete(): this.entry.delete() returns; the record is gone from the journal
\* and the quest from the index.
DeleteEntryDeleted ==
    /\ frame.op = "delete" /\ frame.pc = "entryDelete"
    /\ journal' = [journal EXCEPT ![frame.self] = NoRecord]
    /\ questIndex' = questIndex \ {frame.self}
    /\ LET next == Enter(quests, frame,
                         Append(log, [ev |-> "deleteDone", id |-> frame.self, role |-> "self"]),
                         StageAfter(frame, quests, "entryDelete"))
       IN  /\ quests' = next.quests
           /\ frame' = next.frame
           /\ log' = next.log
    /\ UNCHANGED <<denied, ops>>
    /\ UNCHANGED notPersistVars

PersistNext ==
    \/ QuestSetName
    \/ SaveCall
    \/ SaveDone
    \/ DeleteCall
    \/ DeleteChildSaved
    \/ DeleteParentSaved
    \/ DeleteEntryDeleted

(***************************************************************************)
(* QuestTracker: getData, prepareQuests, the header clicks                 *)
(* (src/unnamed/part_000)                                                  *)
(***************************************************************************)
\* The quests of the database, in the order QuestDB sorts them.
TrackerOrder == <<"q1", "q2", "q3">>
TrackerIds == {"q1", "q2", "q3"}

\* An identifier no entry of the database has.
GoneId == "gone"

\* questStatus: the tracker asks for active.
QuestStatuses == {"active", "completed"}

\* q.data_tasks and q.data_subquest of an entry's enrich data.
DataTasks(q) == IF db[q].hasObjectives THEN <<q \o "-task">> ELSE <<>>
DataSubquest(q) == IF db[q].hasObjectives /\ q = "q1" THEN <<"q2">> ELSE <<>>

\* QuestDB.getQuestEntry(id)
GetQuestEntry(id) == IF id \in TrackerIds THEN id ELSE Null

\* QuestDB.sortCollect({status}): the entries of that status, sorted.
SortCollect(status) == SelectSeq(TrackerOrder, LAMBDA q : db[q].status = status)

\* sessionStorage.getItem(trackerFolderState + id)
FolderState(id) == session.folder[id]

\* A prepareQuests that shows every active quest when no primary quest is set.
PrepareQuestsFallback(showOnlyPrimary, primaryQuest) ==
    LET questEntries == IF showOnlyPrimary /\ primaryQuest # Null
                        THEN <<primaryQuest>> ELSE SortCollect("active")
    IN  [k \in DOMAIN questEntries |->
            LET q == questEntries[k]
                collapsed == FolderState(q) = "false"
            IN  [id |-> q, hasObjectives |-> db[q].hasObjectives,
                 subquests |-> IF collapsed THEN DataSubquest(q) ELSE <<>>,
                 tasks |-> IF collapsed THEN DataTasks(q) ELSE <<>>]]

\* prepareQuests(showOnlyPrimary, primaryQuest)
PrepareQuests(showOnlyPrimary, primaryQuest) ==
    LET questEntries == IF showOnlyPrimary
                        THEN (IF primaryQuest # Null THEN <<primaryQuest>> ELSE <<>>)
                        ELSE SortCollect("active")
    IN  [k \in DOMAIN questEntries |->
            LET q == questEntries[k]
                collapsed == FolderState(q) = "false"
            IN  [id |-> q, hasObjectives |-> db[q].hasObjectives,
                 subquests |-> IF collapsed THEN DataSubquest(q) ELSE <<>>,
                 tasks |-> IF collapsed THEN DataTasks(q) ELSE <<>>]]

\* getData(): the arguments it reads and the quests prepareQuests returns.
GetData ==
    LET showOnlyPrimary == session.showPrimary = "true"
        primaryQuest == GetQuestEntry(primary)
    IN  [showOnlyPrimary |-> showOnlyPrimary,
         primaryQuest |-> primaryQuest,
         primaryQuestId |-> IF ~showOnlyPrimary /\ primaryQuest # Null THEN primaryQuest ELSE "",
         quests |-> PrepareQuests(showOnlyPrimary, primaryQuest)]

\* A click that takes a missing folder state for expanded.
AfterClickAbsentExpanded(folderState) ==
    LET collapsed == folderState = "true"
    IN  IF ~collapsed THEN "true" ELSE "false"

\* _handleQuestClick: the folder state stored, `(!collapsed).toString()`.
AfterClick(folderState) ==
    LET collapsed == folderState # "false"
    IN  IF ~collapsed THEN "true" ELSE "false"

MaxClicks == 3

\* A session begins with an empty sessionStorage; the tracker is rendered once.
TrackerInitWith(d) ==
    /\ db = d
    /\ primary = ""
    /\ session = [showPrimary |-> Null, folder |-> [q \in TrackerIds \cup {GoneId} |-> Null]]
    /\ clicks = [q \in TrackerIds \cup {GoneId} |-> 0]
    /\ view = GetData

TrackerInit ==
    \E d \in [TrackerIds -> [status : QuestStatuses, hasObjectives : BOOLEAN]] :
        TrackerInitWith(d)

TrackerIdle ==
    TrackerInitWith([q \in TrackerIds |-> [status |-> "active", hasObjectives |-> FALSE]])

\* render(): the template is given getData().
Render == view' = GetData'

ClicksSoFar == clicks["q1"] + clicks["q2"] + clicks["q3"] + clicks[GoneId]

\* _handleQuestClick(event)
HandleQuestClick ==
    \E questId \in TrackerIds \cup {GoneId} :
        /\ ClicksSoFar < MaxClicks
        /\ clicks' = [clicks EXCEPT ![questId] = @ + 1]
        /\ UNCHANGED <<db, primary>>
        /\ IF GetQuestEntry(questId) # Null /\ db[questId].hasObjectives
           THEN /\ session' = [session EXCEPT
                                  !.folder[questId] = AfterClick(FolderState(questId))]
                /\ Render
           ELSE UNCHANGED <<session, view>>
        /\ UNCHANGED notTrackerVars

\* The click on the show-primary header button.
HandleShowPrimary ==
    /\ session' = [session EXCEPT
                      !.showPrimary = IF session.showPrimary = "true" THEN "false" ELSE "true"]
    /\ UNCHANGED <<db, primary, clicks>>
    /\ Render
    /\ UNCHANGED notTrackerVars

\* The primaryQuest setting is given a quest, a quest that is gone, or none,
\* and the tracker renders.
PrimaryQuestSet ==
    \E v \in TrackerIds \cup {GoneId, ""} :
        /\ v # primary
        /\ primary' = v
        /\ UNCHANGED <<db, session, clicks>>
        /\ Render
        /\ UNCHANGED notTrackerVars

TrackerNext ==
    \/ HandleQuestClick
    \/ HandleShowPrimary
    \/ PrimaryQuestSet

(***************************************************************************)
(* QuestTracker.setPosition: the debounced write of the position           *)
(* (src/unnamed/part_000)                                                  *)
(***************************************************************************)
s_TIMEOUT_POSITION == 1000

\* What super.setPosition(opts) returns: a position whose width or height may
\* be 0 or missing (0 stands for both), or no position at all (both 0).
Positions == [width : {0, 296, 320}, height : {0, 480}]

NoPosition == [width |-> 0, height |-> 0]

\* `currentPosition && currentPosition.width && currentPosition.height`
HasExtent(p) == p.width # 0 /\ p.height # 0

\* A clearTimeout that cancels nothing.
ClearTimeoutNothing(ts, handle) == ts

\* `if (_timeoutPosition) { clearTimeout(_timeoutPosition); }`
ClearTimeout(ts, handle) ==
    IF handle # 0 THEN {t \in ts : t.id # handle} ELSE ts

\* setTimeout(callback, s_TIMEOUT_POSITION): the callback keeps currentPosition.
SetTimeout(ts, id, p) ==
    ts \cup {[id |-> id, due |-> now + s_TIMEOUT_POSITION, position |-> p]}

\* The clock moves in steps of TimeStep up to MaxTime; setPosition is called
\* at most MaxCalls times.
TimeStep == 500
MaxTime == 3000
MaxCalls == 3

PositionInit ==
    /\ now = 0
    /\ timers = {}
    /\ timeoutPosition = 0
    /\ stored = NoPosition
    /\ hist = [calls |-> 0, lastTime |-> 0, lastPosition |-> NoPosition,
               burstCalls |-> 0, burstWrites |-> 0, burstLost |-> FALSE,
               extentCalls |-> 0, extentTime |-> 0, extentPosition |-> NoPosition,
               writesSince |-> 0, writes |-> 0, writeTime |-> 0]

PositionIdle == PositionInit

\* A call opens a burst unless it comes less than s_TIMEOUT_POSITION after the
\* call before it.
OpensBurst == hist.calls = 0 \/ now - hist.lastTime >= s_TIMEOUT_POSITION

\* setPosition(opts), from the position super.setPosition returns on.
SetPosition ==
    \E currentPosition \in Positions :
        /\ hist.calls < MaxCalls
        /\ IF HasExtent(currentPosition)
           THEN /\ timers' = SetTimeout(ClearTimeout(timers, timeoutPosition),
                                        hist.calls + 1, currentPosition)
                /\ timeoutPosition' = hist.calls + 1
           ELSE UNCHANGED <<timers, timeoutPosition>>
        /\ hist' = [hist EXCEPT
               !.calls = @ + 1,
               !.lastTime = now,
               !.lastPosition = currentPosition,
               !.burstCalls = IF OpensBurst THEN 1 ELSE @ + 1,
               !.burstWrites = IF OpensBurst THEN 0 ELSE @,
               !.burstLost = @ \/ (OpensBurst /\ hist.calls > 0 /\ hist.burstWrites = 0),
               !.extentCalls = IF HasExtent(currentPosition) THEN @ + 1 ELSE @,
               !.extentTime = IF HasExtent(currentPosition) THEN now ELSE @,
               !.extentPosition = IF HasExtent(currentPosition) THEN currentPosition ELSE @,
               !.writesSince = IF HasExtent(currentPosition) THEN 0 ELSE @]
        /\ UNCHANGED <<now, stored>>
        /\ UNCHANGED notPositionVars

\* The timeout's callback: game.settings.set(..., JSON.stringify(currentPosition)).
TimerFires ==
    \E t \in timers :
        /\ now >= t.due
        /\ timers' = timers \ {t}
        /\ stored' = t.position
        /\ hist' = [hist EXCEPT !.burstWrites = @ + 1, !.writesSince = @ + 1,
                                !.writes = @ + 1, !.writeTime = now]
        /\ UNCHANGED <<now, timeoutPosition>>
        /\ UNCHANGED notPositionVars

\* Time passes; a callback that is due may still be waiting for its turn.
Tick ==
    /\ now + TimeStep <= MaxTime
    /\ now' = now + TimeStep
    /\ UNCHANGED <<timers, timeoutPosition, stored, hist>>
    /\ UNCHANGED notPositionVars

PositionNext ==
    \/ SetPosition
    \/ TimerFires
    \/ Tick

(***************************************************************************)
(* QuestFolder: folderExists and initializeJournals                        *)
(* (src/modules/entities/quest-folder.js)                                  *)
(***************************************************************************)
s_QUEST_DIR_NAME == "_fql_quests"

\* folderExists(): `folders.find((f) => f.name === s_QUEST_DIR_NAME) !== undefined`
FolderExists(fs) == \E k \in DOMAIN fs : fs[k] = s_QUEST_DIR_NAME

\* Folder.create({name: s_QUEST_DIR_NAME, ...}) done: the directory holds the
\* new folder.
FolderCreate(fs) == Append(fs, s_QUEST_DIR_NAME)

\* initializeJournals() up to its first await: Folder.create when the folder
\* was not found, the closing find otherwise.
InitializeJournalsAwait(fs) == IF ~FolderExists(fs) THEN "create" ELSE "find"

MaxCallers == 3
MaxInitCalls == 4

\* The places initializeJournals() is called from.
Callers == 1 .. MaxCallers

FolderInitWith(fs) ==
    /\ folders = fs
    /\ initPc = [c \in Callers |-> "idle"]
    /\ initCalls = 0

\* The world before the module ran, or after an earlier session created the
\* folder.
FolderInit ==
    \E fs \in {<<>>, <<"Handouts">>, <<s_QUEST_DIR_NAME>>, <<"Handouts", s_QUEST_DIR_NAME>>} :
        FolderInitWith(fs)

FolderIdle == FolderInitWith(<<>>)

\* initializeJournals() is called: folderExists(), then the first await.
InitializeJournalsCall ==
    \E c \in Callers :
        /\ initPc[c] \in {"idle", "done"}
        /\ initCalls < MaxInitCalls
        /\ initCalls' = initCalls + 1
        /\ initPc' = [initPc EXCEPT ![c] = InitializeJournalsAwait(folders)]
        /\ UNCHANGED folders
        /\ UNCHANGED notFolderVars

\* `await Folder.create(...)` resumes: the folder is in the directory.
InitializeJournalsCreated ==
    \E c \in Callers :
        /\ initPc[c] = "create"
        /\ folders' = FolderCreate(folders)
        /\ initPc' = [initPc EXCEPT ![c] = "find"]
        /\ UNCHANGED initCalls
        /\ UNCHANGED notFolderVars

\* The closing `await ...find(...)` resumes and the call returns.
InitializeJournalsReturn ==
    \E c \in Callers :
        /\ initPc[c] = "find"
        /\ initPc' = [initPc EXCEPT ![c] = "done"]
        /\ UNCHANGED <<folders, initCalls>>
        /\ UNCHANGED notFolderVars

FolderNext ==
    \/ InitializeJournalsCall
    \/ InitializeJournalsCreated
    \/ InitializeJournalsReturn

(***************************************************************************)
(* Reward entity: the constructor, isValid, create and toggleVisible       *)
(* (src/modules/entities/reward.js)                                        *)
(***************************************************************************)
\* data.data: undefined, null, or an object with or without name and img.
NoData == [kind |-> "undefined", name |-> Undefined, img |-> Undefined]
NullData == [kind |-> "null", name |-> Undefined, img |-> Undefined]
EmptyObject == [kind |-> "object", name |-> Undefined, img |-> Undefined]

CreateTypes == {Undefined, Null, "", "item"}
CreateData == {NoData, NullData}
              \cup [kind : {"object"}, name : {Undefined, "Sword"},
                    img : {Undefined, "icons/sword.png"}]
CreateInputs == [type : CreateTypes, data : CreateData, hidden : {Undefined, "true"}]

\* No Reward object.
NoReward == [type |-> Undefined, data |-> NoData, hidden |-> FALSE]

\* new Reward(data)
NewReward(data) ==
    [type |-> Or(data.type, Null),
     data |-> IF data.data.kind = "object" THEN data.data ELSE EmptyObject,
     hidden |-> OrFalse(data.hidden)]

\* get isValid()
IsValid(r) == r.type # Null

\* Reward.create(data): the error thrown, or null when it returns.  Reading
\* `.name` of a null data.data is a TypeError.
CreateError(data) ==
    IF data.type = Undefined THEN "ForienQuestLog.Api.reward.create.type"
    ELSE IF data.data.kind = "undefined" THEN "ForienQuestLog.Api.reward.create.data"
    ELSE IF data.data.kind = "null" THEN "TypeError"
    ELSE IF data.data.name = Undefined \/ data.data.img = Undefined
    THEN "ForienQuestLog.Api.reward.create.data"
    ELSE Null

\* Reward.create(data): what it returns when nothing is thrown.
RewardCreate(data) == IF CreateError(data) # Null THEN NoReward ELSE NewReward(data)

RewardInit ==
    /\ made = [op |-> "none", input |-> [type |-> Undefined, data |-> NoData,
                                         hidden |-> Undefined],
               threw |-> FALSE, error |-> Null]
    /\ rewardObj = NoReward

RewardIdle == RewardInit

\* Reward.create(data)
RewardCreateCall ==
    \E d \in CreateInputs :
        /\ made' = [op |-> "create", input |-> d,
                    threw |-> CreateError(d) # Null, error |-> CreateError(d)]
        /\ rewardObj' = RewardCreate(d)
        /\ UNCHANGED notRewardVars

\* new Reward(data)
RewardNew ==
    \E d \in CreateInputs :
        /\ made' = [op |-> "new", input |-> d, threw |-> FALSE, error |-> Null]
        /\ rewardObj' = NewReward(d)
        /\ UNCHANGED notRewardVars

\* reward.toggleVisible()
RewardToggleVisible ==
    /\ rewardObj # NoReward
    /\ rewardObj' = [rewardObj EXCEPT !.hidden = ~rewardObj.hidden]
    /\ UNCHANGED made
    /\ UNCHANGED notRewardVars

RewardNext ==
    \/ RewardCreateCall
    \/ RewardNew
    \/ RewardToggleVisible

(***************************************************************************)
(* QuestTracker: _handleQuestTask (src/unnamed/part_000), with Task.toggle *)
(* and Quest.save (src/modules/model/Quest.js)                             *)
(***************************************************************************)
\* The quest the tracker shows and the uuids of its tasks.
TrackedQuest == "q1"
TaskUuids == {"t1", "t2"}

\* What a click's dataset may carry: also a quest and a task that are gone.
ClickQuestIds == {TrackedQuest, GoneId}
ClickUuids == TaskUuids \cup {"t-gone"}

\* QuestDB.getQuest(questId): the quest, or undefined.
GetQuest(questId) == IF questId = TrackedQuest THEN questId ELSE Undefined

\* quest.getTask(uuidv4): the task, or undefined.
GetTask(uuidv4) == IF uuidv4 \in TaskUuids THEN uuidv4 ELSE Undefined

\* The tasks as the quest was loaded: one open, one completed.
LoadedTasks ==
    [u \in TaskUuids |->
        IF u = "t1"
        THEN Task([name |-> "Find the amulet", completed |-> Undefined,
                   failed |-> Undefined, hidden |-> Undefined])
        ELSE Task([name |-> "Slay the dragon", completed |-> "true",
                   failed |-> Undefined, hidden |-> Undefined])]

NoTaskUpdate == [skip |-> TRUE, tasks |-> LoadedTasks]

\* quest.save() called from the handler, up to its await: the early return
\* without a record or without the permission, or the update in flight.
TaskSaveStart(record, ts) ==
    IF ~record.exists \/ ~record.allowed THEN NoTaskUpdate
    ELSE [skip |-> FALSE, tasks |-> ts]

\* entry.update(update, {diff: false}) done.
TaskSaveApply(record, pending) ==
    IF pending.skip THEN record ELSE [record EXCEPT !.tasks = pending.tasks]

Event(ev, h, questId, uuidv4, focus) ==
    [ev |-> ev, h |-> h, questId |-> questId, uuidv4 |-> uuidv4, focus |-> focus]

\* A handler that does not await the save: the notification goes out at once.
HandleQuestTaskNoAwait(evts, h, questId, uuidv4) ==
    evts \o <<Event("toggle", h, questId, uuidv4, FALSE),
              Event("saveStart", h, questId, uuidv4, FALSE),
              Event("refresh", h, questId, uuidv4, FALSE)>>

\* _handleQuestTask with the quest and the task found, up to its await:
\* `task.toggle(); await quest.save();`
HandleQuestTaskFound(evts, h, questId, uuidv4) ==
    evts \o <<Event("toggle", h, questId, uuidv4, FALSE),
              Event("saveStart", h, questId, uuidv4, FALSE)>>

\* `Socket.refreshQuestPreview({ questId, focus: false })`
RefreshQuestPreview(evts, h, questId, uuidv4) ==
    Append(evts, Event("refresh", h, questId, uuidv4, FALSE))

MaxTaskClicks == 2

ClickInitWith(exists, allowed) ==
    /\ questTasks = LoadedTasks
    /\ taskRecord = [exists |-> exists, allowed |-> allowed, tasks |-> LoadedTasks]
    /\ handlers = <<>>
    /\ events = <<>>

\* The quest's record may be missing, and the user may lack the permission
\* to update it.
ClickInit == \E exists \in BOOLEAN, allowed \in BOOLEAN : ClickInitWith(exists, allowed)

ClickIdle == ClickInitWith(TRUE, TRUE)

\* _handleQuestTask(event), up to its await or its return.
HandleQuestTask ==
    \E anchor \in BOOLEAN, questId \in ClickQuestIds, uuidv4 \in ClickUuids :
        LET h == Len(handlers) + 1
            found == /\ ~anchor
                     /\ GetQuest(questId) # Undefined
                     /\ GetTask(uuidv4) # Undefined
            toggled == [questTasks EXCEPT ![uuidv4] = Toggle(@)]
        IN  /\ Len(handlers) < MaxTaskClicks
            /\ IF found
               THEN /\ questTasks' = toggled
                    /\ events' = HandleQuestTaskFound(events, h, questId, uuidv4)
                    /\ handlers' = Append(handlers,
                                          [pc |-> "save", anchor |-> anchor,
                                           questId |-> questId, uuidv4 |-> uuidv4,
                                           pending |-> TaskSaveStart(taskRecord, toggled)])
               ELSE /\ handlers' = Append(handlers,
                                          [pc |-> "done", anchor |-> anchor,
                                           questId |-> questId, uuidv4 |-> uuidv4,
                                           pending |-> NoTaskUpdate])
                    /\ UNCHANGED <<questTasks, events>>
            /\ UNCHANGED taskRecord
            /\ UNCHANGED notClickVars

\* quest.save() resumes from entry.update, or from its early return, and is
\* done.
HandleQuestTaskSaved ==
    \E h \in DOMAIN handlers :
        /\ handlers[h].pc = "save"
        /\ taskRecord' = TaskSaveApply(taskRecord, handlers[h].pending)
        /\ events' = Append(events, Event("saveDone", h, handlers[h].questId,
                                          handlers[h].uuidv4, FALSE))
        /\ handlers' = [handlers EXCEPT ![h].pc = "saved", ![h].pending = NoTaskUpdate]
        /\ UNCHANGED questTasks
        /\ UNCHANGED notClickVars

\* _handleQuestTask resumes from `await quest.save()`: the notification.
HandleQuestTaskRefresh ==
    \E h \in DOMAIN handlers :
        /\ handlers[h].pc = "saved"
        /\ events' = RefreshQuestPreview(events, h, handlers[h].questId, handlers[h].uuidv4)
        /\ handlers' = [handlers EXCEPT ![h].pc = "done"]
        /\ UNCHANGED <<questTasks, taskRecord>>
        /\ UNCHANGED notClickVars

ClickNext ==
    \/ HandleQuestTask
    \/ HandleQuestTaskSaved
    \/ HandleQuestTaskRefresh

(***************************************************************************)
(* The specifications: one per component                                   *)
(***************************************************************************)
TaskSpecInit ==
    /\ TaskInit
    /\ ListIdle
    /\ PersistIdle
    /\ TrackerIdle
    /\ PositionIdle
    /\ FolderIdle
    /\ RewardIdle
    /\ ClickIdle

SpecTask == TaskSpecInit /\ [][TaskNext]_vars

ListSpecInit ==
    /\ ListInit
    /\ TaskIdle
    /\ PersistIdle
    /\ TrackerIdle
    /\ PositionIdle
    /\ FolderIdle
    /\ RewardIdle
    /\ ClickIdle

SpecLists == ListSpecInit /\ [][ListNext]_vars

PersistSpecInit ==
    /\ PersistInit
    /\ TaskIdle
    /\ ListIdle
    /\ TrackerIdle
    /\ PositionIdle
    /\ FolderIdle
    /\ RewardIdle
    /\ ClickIdle

SpecPersist == PersistSpecInit /\ [][PersistNext]_vars

TrackerSpecInit ==
    /\ TrackerInit
    /\ TaskIdle
    /\ ListIdle
    /\ PersistIdle
    /\ PositionIdle
    /\ FolderIdle
    /\ RewardIdle
    /\ ClickIdle

SpecTracker == TrackerSpecInit /\ [][TrackerNext]_vars

PositionSpecInit ==
    /\ PositionInit
    /\ TaskIdle
    /\ ListIdle
    /\ PersistIdle
    /\ TrackerIdle
    /\ FolderIdle
    /\ RewardIdle
    /\ ClickIdle

SpecPosition == PositionSpecInit /\ [][PositionNext]_vars

FolderSpecInit ==
    /\ FolderInit
    /\ TaskIdle
    /\ ListIdle
    /\ PersistIdle
    /\ TrackerIdle
    /\ PositionIdle
    /\ RewardIdle
    /\ ClickIdle

SpecFolder == FolderSpecInit /\ [][FolderNext]_vars

RewardSpecInit ==
    /\ RewardInit
    /\ TaskIdle
    /\ ListIdle
    /\ PersistIdle
    /\ TrackerIdle
    /\ PositionIdle
    /\ FolderIdle
    /\ ClickIdle

SpecReward == RewardSpecInit /\ [][RewardNext]_vars

ClickSpecInit ==
    /\ ClickInit
    /\ TaskIdle
    /\ ListIdle
    /\ PersistIdle
    /\ TrackerIdle
    /\ PositionIdle
    /\ FolderIdle
    /\ RewardIdle

SpecClick == ClickSpecInit /\ [][ClickNext]_vars

(***************************************************************************)
(* C1: when A.delete() has returned and A's parent P was found in the     *)
(* index, P's subquests hold every subquest of A that is in the index and  *)
(* not A, each such subquest has P as its parent, and savedIDs holds their *)
(* identifiers and P's; when no parent was found each such subquest's      *)
(* parent is null.                                                         *)
(***************************************************************************)
Range(s) == {s[k] : k \in DOMAIN s}

DeleteReturned == frame.op = "delete" /\ frame.pc = "done"

C1_DeleteRelinks ==
    DeleteReturned =>
        LET A == frame.self
            P == frame.parentQuest
            kids == {c \in Range(quests[A].subquests) : c \in questIndex}
        IN  IF P # Null
            THEN /\ \A c \in kids :
                        /\ c \in Range(quests[P].subquests)
                        /\ quests[c].parent = P
                        /\ c \in Range(frame.savedIDs)
                 /\ A \notin Range(quests[P].subquests)
                 /\ P \in Range(frame.savedIDs)
            ELSE \A c \in kids : quests[c].parent = Null

C1_Witness ==
    /\ DeleteReturned
    /\ frame.self = "A" /\ frame.parentQuest = "P"
    /\ quests["A"].subquests = <<"B", "C">>
    /\ quests["P"].subquests = <<"B", "C">>
    /\ quests["B"].parent = "P" /\ quests["C"].parent = "P"
    /\ frame.savedIDs = <<"B", "C", "P">>

(***************************************************************************)
(* C2: in a delete(), when the parent's save starts every child's save    *)
(* has started and returned, and when the deletion of the quest's own      *)
(* record starts every child's and the parent's save has started and       *)
(* returned: no save is pending at either moment, none starts later.       *)
(***************************************************************************)
SavePendingAt(k) ==
    \E i \in 1 .. (k - 1) :
        /\ log[i].ev = "saveStart"
        /\ ~\E j \in (i + 1) .. (k - 1) : log[j].ev = "saveDone" /\ log[j].id = log[i].id

C2_DeleteOrder ==
    frame.op = "delete" =>
        \A k \in DOMAIN log :
            /\ (log[k].ev = "saveStart" /\ log[k].role = "parent") =>
                   /\ ~SavePendingAt(k)
                   /\ \A i \in DOMAIN log : log[i].role = "child" => i < k
            /\ log[k].ev = "deleteStart" =>
                   /\ ~SavePendingAt(k)
                   /\ \A i \in DOMAIN log : log[i].role \in {"child", "parent"} => i < k

C2_Witness ==
    /\ DeleteReturned
    /\ frame.savedIDs = <<"B", "C", "P">>
    /\ Len(log) = 11
    /\ log[6].ev = "saveDone" /\ log[6].role = "child"
    /\ log[7].ev = "saveStart" /\ log[7].role = "parent"
    /\ log[9].ev = "saveDone" /\ log[9].role = "parent"
    /\ log[10].ev = "deleteStart"

(***************************************************************************)
(* C6: a save() that has returned made no update and returned undefined    *)
(* when the record was missing or the user may not update it; otherwise    *)
(* it made exactly one update, the record holds the quest's serialized     *)
(* state, and it returned the quest's identifier.                          *)
(***************************************************************************)
SaveReturned == frame.op = "save" /\ frame.pc = "done"

UpdatesMade == {k \in DOMAIN log : log[k].ev = "update"}

C6_Save ==
    SaveReturned =>
        LET q == frame.self
        IN  IF ~frame.before.exists \/ q \in denied
            THEN /\ frame.ret = Undefined
                 /\ UpdatesMade = {}
                 /\ journal[q] = frame.before
            ELSE /\ frame.ret = q
                 /\ Cardinality(UpdatesMade) = 1
                 /\ \A k \in UpdatesMade : log[k].id = q
                 /\ journal[q].exists
                 /\ journal[q].json = ToJSON(quests[q])
                 /\ journal[q].name = quests[q].name

C6_Witness ==
    /\ SaveReturned
    /\ frame.ret = frame.self
    /\ frame.before.name = NewQuestLabel
    /\ journal[frame.self].name = "Rescue"
    /\ journal[frame.self].json.name = "Rescue"

(***************************************************************************)
(* C11: once an initializeJournals() call has returned and none is under   *)
(* way, exactly one folder with the reserved name exists, whether the      *)
(* calls ran one after another or one began while another was suspended    *)
(* at Folder.create.                                                       *)
(***************************************************************************)
ReservedFolders == {k \in DOMAIN folders : folders[k] = s_QUEST_DIR_NAME}

C11_OneContainer ==
    (/\ \E c \in Callers : initPc[c] = "done"
     /\ \A c \in Callers : initPc[c] \in {"idle", "done"}) =>
        Cardinality(ReservedFolders) = 1

(***************************************************************************)
(* C12: Reward.create throws, and leaves no reward, whenever type is       *)
(* absent or data, data.name or data.img is absent; a reward it returns    *)
(* is valid.                                                               *)
(***************************************************************************)
C12_Create ==
    made.op = "create" =>
        /\ (\/ made.input.type = Undefined
            \/ made.input.data.kind # "object"
            \/ made.input.data.name = Undefined
            \/ made.input.data.img = Undefined) => (made.threw /\ rewardObj = NoReward)
        /\ ~made.threw => IsValid(rewardObj)

(***************************************************************************)
(* C13: a task click that finds its quest and its task toggles the task,   *)
(* then starts the save, and sends the refresh notification for that       *)
(* quest, with focus false, only after the save is done; a click that      *)
(* finds no quest or no task toggles, saves and notifies nothing.          *)
(***************************************************************************)
EventsOf(h, ev) == {k \in DOMAIN events : events[k].h = h /\ events[k].ev = ev}

RECURSIVE ToggleTimes(_, _)
ToggleTimes(t, n) == IF n = 0 THEN t ELSE ToggleTimes(Toggle(t), n - 1)

TogglesOf(u) == {k \in DOMAIN events : events[k].ev = "toggle" /\ events[k].uuidv4 = u}

C13_TaskClickOrder ==
    /\ \A h \in DOMAIN handlers :
           IF /\ handlers[h].questId = TrackedQuest
              /\ handlers[h].uuidv4 \in TaskUuids
              /\ ~handlers[h].anchor
           THEN /\ Cardinality(EventsOf(h, "toggle")) = 1
                /\ Cardinality(EventsOf(h, "saveStart")) = 1
                /\ Cardinality(EventsOf(h, "saveDone")) <= 1
                /\ Cardinality(EventsOf(h, "refresh")) <= 1
                /\ \A i \in EventsOf(h, "toggle"), j \in EventsOf(h, "saveStart") : i < j
                /\ \A i \in EventsOf(h, "saveStart"), j \in EventsOf(h, "saveDone") : i < j
                /\ \A j \in EventsOf(h, "refresh") :
                       /\ \E i \in EventsOf(h, "saveDone") : i < j
                       /\ events[j].questId = handlers[h].questId
                       /\ events[j].focus = FALSE
                /\ handlers[h].pc = "done" => EventsOf(h, "refresh") # {}
           ELSE \A k \in DOMAIN events : events[k].h # h
    /\ \A u \in TaskUuids :
           questTasks[u] = ToggleTimes(LoadedTasks[u], Cardinality(TogglesOf(u)))

C13_Witness ==
    /\ Len(handlers) = 2
    /\ handlers[1].pc = "done" /\ handlers[1].uuidv4 = "t1" /\ ~handlers[1].anchor
    /\ handlers[1].questId = TrackedQuest
    /\ handlers[2].pc = "done" /\ handlers[2].uuidv4 = "t-gone"
    /\ Len(events) = 4
    /\ events[4].ev = "refresh" /\ events[3].ev = "saveDone"
    /\ questTasks["t1"].completed
    /\ taskRecord.tasks["t1"].completed

(***************************************************************************)
(* C14: every identifier in the savedIDs of a delete() that has returned   *)
(* names a quest whose record that delete() updated; a quest whose save()  *)
(* was skipped is not among them.                                          *)
(***************************************************************************)
C14_SavedOnlyUpdated ==
    DeleteReturned =>
        \A k \in DOMAIN frame.savedIDs :
            \E i \in DOMAIN log : log[i].ev = "update" /\ log[i].id = frame.savedIDs[k]

(***************************************************************************)
(* C15: from an index whose parent and subquest links agree, with every    *)
(* quest in the index, backed by a record and the user's to update, after  *)
(* any sequence of delete() calls that have returned the links of the      *)
(* quests left in the index agree, in the objects and in the records: a    *)
(* quest is in another's subquests exactly when that other is its parent,  *)
(* no subquest list repeats a quest, and no parent or subquest is a quest  *)
(* that was deleted.                                                       *)
(***************************************************************************)
NoTrouble == denied = {} /\ \A q \in QuestIds : quests[q].entry

NoRepeat(s) == \A i, j \in DOMAIN s : s[i] = s[j] => i = j

LinksAgree(link) ==
    \A p \in questIndex :
        /\ NoRepeat(link[p].subquests)
        /\ Range(link[p].subquests) \subseteq questIndex
        /\ link[p].parent \in questIndex \cup {Null}
        /\ \A b \in questIndex : b \in Range(link[p].subquests) <=> link[b].parent = p

C15_LinksAgree ==
    (NoTrouble /\ Returned) =>
        /\ LinksAgree(quests)
        /\ LinksAgree([q \in QuestIds |-> journal[q].json])

C15_Witness ==
    /\ NoTrouble
    /\ DeleteReturned
    /\ questIndex = {"P", "C"}
    /\ quests["C"].parent = "P"
    /\ journal["C"].json.parent = "P"
    /\ journal["P"].json.subquests = <<"C">>
    /\ frame.self = "B" /\ frame.savedIDs = <<"C", "P">>

(***************************************************************************)
(* C8: with showOnlyPrimary set, prepareQuests returns the primary quest  *)
(* alone when one is configured and nothing when none is; with it not set, *)
(* one entry for every active quest, none for any other, in the order of   *)
(* the quest index.                                                        *)
(***************************************************************************)
PlaceOf(q) == CHOOSE k \in DOMAIN TrackerOrder : TrackerOrder[k] = q

EntriesOf(q) == {k \in DOMAIN view.quests : view.quests[k].id = q}

C9_Collapse ==
    /\ \A k \in DOMAIN view.quests :
           LET e == view.quests[k]
           IN  IF session.folder[e.id] = "false"
               THEN e.tasks = DataTasks(e.id) /\ e.subquests = DataSubquest(e.id)
               ELSE e.tasks = <<>> /\ e.subquests = <<>>
    /\ \A q \in TrackerIds \cup {GoneId} :
           IF q \in TrackerIds /\ db[q].hasObjectives
           THEN /\ (session.folder[q] = "false") <=> (clicks[q] % 2 = 1)
                /\ clicks[q] = 0 <=> session.folder[q] = Null
           ELSE session.folder[q] = Null

C9_Witness ==
    /\ clicks["q1"] = 1 /\ clicks["q2"] = 2
    /\ db["q1"].hasObjectives /\ db["q2"].hasObjectives
    /\ session.folder["q1"] = "false" /\ session.folder["q2"] = "true"
    /\ \E k \in EntriesOf("q1") :
           view.quests[k].tasks = <<"q1-task">> /\ view.quests[k].subquests = <<"q2">>
    /\ \E k \in EntriesOf("q2") :
           view.quests[k].tasks = <<>> /\ view.quests[k].subquests = <<>>

(***************************************************************************)
(* C10, as claimed: every setPosition call replaces the pending write, so *)
(* each burst of calls less than 1000 apart gets exactly one write, with   *)
(* the position of its last call: a pending write carries the last call's  *)
(* position, a write made is the burst's only one and stores that          *)
(* position, and no burst is left without its write.                       *)
(***************************************************************************)
C10_OneWritePerBurst ==
    /\ \A t \in timers : t.position = hist.lastPosition
    /\ hist.burstWrites <= 1
    /\ hist.burstWrites = 1 => stored = hist.lastPosition
    /\ (hist.calls > 0 /\ timers = {}) => hist.burstWrites = 1
    /\ ~hist.burstLost

(***************************************************************************)
(* C10, amended: only a call whose position has a width and a height      *)
(* replaces the pending write; the one timer slot then holds that call's   *)
(* position, due 1000 after it.  So no write is made sooner than 1000      *)
(* after the last such call, at most one is made after it, and it stores   *)
(* that call's position; a call without width or height leaves the pending *)
(* write as it is.                                                         *)
(***************************************************************************)
C10_Debounce ==
    /\ Cardinality(timers) <= 1
    /\ \A t \in timers :
           /\ t.id = timeoutPosition
           /\ t.position = hist.extentPosition
           /\ t.due = hist.extentTime + s_TIMEOUT_POSITION
    /\ IF hist.extentCalls = 0
       THEN timers = {} /\ hist.writes = 0
       ELSE /\ hist.writesSince <= 1
            /\ timers = {} <=> hist.writesSince = 1
    /\ hist.writesSince = 1 =>
           /\ stored = hist.extentPosition
           /\ hist.writeTime >= hist.extentTime + s_TIMEOUT_POSITION

C10_Witness ==
    /\ hist.calls = 2 /\ hist.extentCalls = 2 /\ hist.burstCalls = 2
    /\ hist.writes = 1 /\ hist.burstWrites = 1
    /\ timers = {}
    /\ stored = hist.lastPosition
    /\ stored.width = 320

(***************************************************************************)
(* C5: addTask with an empty or missing name raises no error and leaves   *)
(* the tasks as they were; with a non-empty name it appends exactly one    *)
(* task, the earlier tasks staying in place.                               *)
(***************************************************************************)
C5_AddTask ==
    call.op = "addTask" =>
        /\ ~call.threw
        /\ IF call.name \in {Undefined, ""}
           THEN tasks = call.tasks
           ELSE /\ Len(tasks) = Len(call.tasks) + 1
                /\ SubSeq(tasks, 1, Len(call.tasks)) = call.tasks
                /\ tasks[Len(tasks)].name = call.name

(***************************************************************************)
(* C7: for an index inside the sequence, sortTasks and sortRewards take   *)
(* the element at index out and put it back at position targetIdx when     *)
(* targetIdx is truthy (a position of the sequence, 1 .. length-1), and at *)
(* the end when targetIdx is 0 or undefined; so sortTasks(0, 0) on two or  *)
(* more tasks moves the first task to the end.                             *)
(***************************************************************************)
RemoveAt(s, i) == SubSeq(s, 1, i) \o SubSeq(s, i + 2, Len(s))
InsertAt(s, i, e) == SubSeq(s, 1, i) \o <<e>> \o SubSeq(s, i + 1, Len(s))

SortedAsClaimed(pre, post) ==
    (call.index >= 0 /\ call.index < Len(pre)) =>
        LET entry == pre[call.index + 1]
            rest == RemoveAt(pre, call.index)
        IN  IF call.hasTarget /\ call.target # 0
            THEN (call.target >= 1 /\ call.target < Len(pre)) =>
                     /\ post = InsertAt(rest, call.target, entry)
                     /\ post[call.target + 1] = entry
            ELSE post = Append(rest, entry)

C7_Sort ==
    /\ call.op = "sortTasks" => SortedAsClaimed(call.tasks, tasks)
    /\ call.op = "sortRewards" => SortedAsClaimed(call.rewards, rewards)

C7_Witness ==
    /\ call.op = "sortTasks"
    /\ call.index = 0 /\ call.hasTarget /\ call.target = 0
    /\ Len(call.tasks) = 3
    /\ call.tasks[1] # call.tasks[2]
    /\ tasks = <<call.tasks[2], call.tasks[3], call.tasks[1]>>

(***************************************************************************)
(* C16: removeTask(index) and removeReward(index) leave their sequence as  *)
(* it was when index is negative or at or beyond the length, and otherwise *)
(* remove exactly the element at index; neither touches the other          *)
(* sequence or the subquests.                                              *)
(***************************************************************************)
RemovedAsClaimed(pre, post, index) ==
    IF index < 0 \/ index >= Len(pre) THEN post = pre ELSE post = RemoveAt(pre, index)

C16_Remove ==
    /\ call.op = "removeTask" =>
           /\ RemovedAsClaimed(call.tasks, tasks, call.index)
           /\ rewards = call.rewards /\ subquests = call.subquests
    /\ call.op = "removeReward" =>
           /\ RemovedAsClaimed(call.rewards, rewards, call.index)
           /\ tasks = call.tasks /\ subquests = call.subquests

(***************************************************************************)
(* C17: for every index and every targetIdx, sortTasks and sortRewards     *)
(* leave their sequence a permutation of what it was: the same length and  *)
(* each element as often as before, none of them an undefined entry that   *)
(* was not there.                                                          *)
(***************************************************************************)
Occurrences(s, e) == Cardinality({k \in DOMAIN s : s[k] = e})

Permutation(pre, post) ==
    /\ Len(post) = Len(pre)
    /\ \A e \in Range(pre) \cup Range(post) : Occurrences(post, e) = Occurrences(pre, e)

C17_SortPermutes ==
    /\ call.op = "sortTasks" => Permutation(call.tasks, tasks)
    /\ call.op = "sortRewards" => Permutation(call.rewards, rewards)

(***************************************************************************)
(* C3: started from {completed: false, failed: false}, the task after n   *)
(* toggles is unchecked, completed only, or failed only as n mod 3 is 0,   *)
(* 1 or 2; three toggles return it to where it started.                    *)
(***************************************************************************)
C3_ToggleCycle ==
    (~task0.completed /\ ~task0.failed) =>
        /\ (toggles % 3 = 0) => (~task.completed /\ ~task.failed /\ TaskState(task) = "square")
        /\ (toggles % 3 = 1) => (task.completed /\ ~task.failed /\ TaskState(task) = "check-square")
        /\ (toggles % 3 = 2) => (~task.completed /\ task.failed /\ TaskState(task) = "minus-square")

C3_Witness ==
    /\ ~task0.completed /\ ~task0.failed
    /\ toggles = 5
    /\ task.failed

(***************************************************************************)
(* C4: completed and failed are never both true, for a Task built from    *)
(* any raw record or reached by toggle() and toggleVisible().              *)
(***************************************************************************)
C4_NeverBoth == ~(task.completed /\ task.failed)

====
